---- MODULE Spec2Model ----
(***************************************************************************)
(* A model of qcodes_qick's sweep machinery:                               *)
(*   - SweepProtocol.run / run_hardware_sweeps   (protocol_base_v2.py)     *)
(*   - S21Protocol.run_program                   (s21_protocols.py)        *)
(*   - the three program builders' initialize()                            *)
(*   - SweepProgram.__init__ / initialize with the channels' initialize    *)
(*     (channels_v2.py) and SimpleSweepProgram.body                        *)
(*   - SoftwareSweep.__init__ and HardwareSweep.__init__                   *)
(*   - the set_parser of the sweepable parameters (parameters_v2.py)       *)
(***************************************************************************)
EXTENDS Integers, Sequences, FiniteSets, TLC

\* ------------------------------------------------------------------ bounds
MaxSoftSweeps == 2
MaxSoftLen == 3
MaxSweepParams == 2
MaxHardSweeps == 2
MaxHardNum == 5
MaxChannels == 2
MaxReads == 2
MaxPhys == 10
MaxStart == 2
MaxCount == 5
MaxScale == 2
MaxOffset == 1
RegisterBits == 4

VARIABLES
    protocol,         \* which orchestrator runs: "SweepProtocol" or "S21Protocol"
    software_sweeps,  \* the declared software sweeps, in declaration order
    hardware_sweeps,  \* the declared hardware sweeps, in declaration order
    reads_per_shot,   \* program.reads_per_shot, one entry per readout channel
    ro_chs,           \* the keys of program.ro_chs (ADC channel numbers)
    run_reads,        \* reads_per_shot of the programs built with the sweeps
    fail,             \* the external call that raises, if any
    pc,               \* position inside run / run_program
    param_value,      \* current value of every swept parameter (0: never set)
    setpoints,        \* run's local list `setpoints`
    iq_parameters,    \* run's local list `iq_parameters`
    current_values,   \* index vector of the combination the product loop is at
    n_build,          \* number of generate_program calls so far
    n_acquire,        \* number of acquire calls so far
    program,          \* the last program built
    iq,               \* what the last acquire returned
    results,          \* the result blocks given to the datasaver, in order
    coords,           \* coordinate list returned by run_program
    log,              \* the calls made so far, in order
    error,            \* "" or the exception that ended the run
    built,            \* a program builder's initialize() on its own
    hsweep,           \* a HardwareSweep under construction
    ssweep,           \* a SoftwareSweep under construction
    device,           \* the channels' and the protocol's parameter values
    instrument        \* a QickInstrument's sweepable parameters and swept_params

\* what a run is given: its arguments and the behaviour of the external library
inputs == <<protocol, software_sweeps, hardware_sweeps, reads_per_shot, ro_chs,
            run_reads, fail>>

runVars == <<inputs, pc,
             param_value, setpoints, iq_parameters, current_values, n_build,
             n_acquire, program, iq, results, coords, log, error>>

otherVars == <<built, hsweep, ssweep, device, instrument>>

vars == <<runVars, otherVars>>

\* ----------------------------------------------------------------- helpers
RECURSIVE SeqSum(_)
SeqSum(s) == IF s = <<>> THEN 0 ELSE Head(s) + SeqSum(Tail(s))

RECURSIVE SeqProd(_)
SeqProd(s) == IF s = <<>> THEN 1 ELSE Head(s) * SeqProd(Tail(s))

RECURSIVE Flatten(_)
Flatten(ss) == IF ss = <<>> THEN <<>> ELSE Head(ss) \o Flatten(Tail(ss))

Reverse(s) == [i \in 1..Len(s) |-> s[Len(s) + 1 - i]]

Min(a, b) == IF a <= b THEN a ELSE b

\* ------------------------------------------------------------------ inputs
\* A parameter is named by <<kind, sweep index, position in the sweep>>.
pulse_gain == <<"pulse_gain", 0, 0>>

\* SoftwareSweep object number i as run() sees it: np parameters, len values.
\* The values of different sweeps are different numbers.
SoftwareSweepAt(i, np, len) ==
    [parameters |-> [j \in 1..np |-> <<"soft", i, j>>],
     values     |-> [p \in 1..len |-> 10 * i + p]]

\* HardwareSweep object number k: its parameter, the class of the parameter's
\* owner (sweep.parameter.instrument), len(sweep.values) and sweep.values[0].
HardwareSweepAt(k, owner, num) ==
    [parameter |-> <<"hard", k, 1>>, owner |-> owner, num |-> num,
     first |-> 100 * k + 1]

HardNums == {1, 2, MaxHardNum}

SoftwareSweepLists(nps, lens) ==
    UNION { { [i \in 1..n |-> SoftwareSweepAt(i, np[i], len[i])] :
                np \in [1..n -> nps], len \in [1..n -> lens] } :
            n \in 0..MaxSoftSweeps }

HardwareSweepLists(owners) ==
    UNION { { [k \in 1..n |-> HardwareSweepAt(k, ow[k], num[k])] :
                ow \in [1..n -> owners], num \in [1..n -> HardNums] } :
            n \in 0..MaxHardSweeps }

ReadoutShapes ==
    UNION { [1..n -> 0..MaxReads] : n \in 1..MaxChannels }

Parameters(ss, hs) ==
    UNION { { ss[i].parameters[j] : j \in 1..Len(ss[i].parameters) } : i \in 1..Len(ss) }
    \cup { hs[k].parameter : k \in 1..Len(hs) }

\* ------------------------------------------------- the program builders
\* mutant of sweep_order: no builder reverses the sweeps
sweep_order_declared(builder, hws) == [i \in 1..Len(hws) |-> i]

\* The order in which a builder's initialize() walks the hardware sweeps:
\*   SweepProgram          for sweep in self.hardware_sweeps
\*   S21Program            for sweep in reversed(hardware_sweeps)
\*   HardwareSweepProgram  for sweep_variable in sweep_variables
sweep_order(builder, hws) ==
    IF builder = "S21Program"
    THEN [i \in 1..Len(hws) |-> Len(hws) + 1 - i]
    ELSE [i \in 1..Len(hws) |-> i]

\* mutant of has_binding: the check for a register binding is missing
has_binding_unchecked(builder, sweep) == TRUE

\* Whether a builder finds a register for the sweep's parameter:
\*   SweepProgram          isinstance(sweep.parameter.instrument, QickInstruction)
\*   S21Program            sweep.parameter is p.pulse_gain
\*   HardwareSweepProgram  every entry of sweep_variables gets an add_sweep
has_binding(builder, sweep) ==
    IF builder = "SweepProgram" THEN sweep.owner = "QickInstruction"
    ELSE IF builder = "S21Program" THEN sweep.parameter = pulse_gain
    ELSE TRUE

\* initialize(): one sweep directive per hardware sweep, in the builder's order,
\* up to the first sweep without a binding, where NotImplementedError is raised.
\* directives lists the sweeps (by declaration index) in the order attached.
initialize(builder, hws) ==
    LET ord  == sweep_order(builder, hws)
        bad  == { i \in 1..Len(hws) : ~has_binding(builder, hws[ord[i]]) }
        stop == IF bad = {} THEN Len(hws) + 1
                ELSE CHOOSE i \in bad : \A m \in bad : i <= m
    IN  [directives |-> [i \in 1..(stop - 1) |-> ord[i]], raised |-> bad # {}]

\* the program class each orchestrator constructs
program_class(proto) ==
    IF proto = "SweepProtocol" THEN "SweepProgram" ELSE "HardwareSweepProgram"

generate_program(proto, hws) == initialize(program_class(proto), hws)

NoProgram == [directives |-> <<>>, raised |-> FALSE]

\* ------------------------------------------------- itertools.product
Lens(ss) == [i \in 1..Len(ss) |-> Len(ss[i].values)]

\* mutant of product_next: the leftmost position advances fastest
product_next_leftmost(idx, lens) ==
    LET can == { k \in 1..Len(idx) : idx[k] < lens[k] }
        k   == CHOOSE m \in can : \A o \in can : m <= o
    IN  [j \in 1..Len(idx) |-> IF j > k THEN idx[j]
                               ELSE IF j = k THEN idx[k] + 1 ELSE 1]

\* The tuple after idx in itertools.product order: the rightmost position that
\* can still advance does, and every position right of it restarts.
product_next(idx, lens) ==
    LET can == { k \in 1..Len(idx) : idx[k] < lens[k] }
        k   == CHOOSE m \in can : \A o \in can : o <= m
    IN  [j \in 1..Len(idx) |-> IF j < k THEN idx[j]
                               ELSE IF j = k THEN idx[k] + 1 ELSE 1]

product_exhausted(idx, lens) == \A k \in 1..Len(idx) : idx[k] >= lens[k]

\* the values of the combination at index vector idx
ValuesAt(ss, idx) == [i \in 1..Len(idx) |-> ss[i].values[idx[i]]]

\* ------------------------------------------------------------------- Init
\* The inputs of a run. One of the four inputs (the software sweeps' value
\* lists, the software sweeps' parameter lists, the hardware sweeps, the readout
\* shape) ranges over everything within the bounds while the others range over
\* a few representative values.
FewSoftwareSweeps == {<<>>, <<SoftwareSweepAt(1, 1, 2)>>}

FewHardwareSweeps(owners) ==
    {<<>>} \cup { <<HardwareSweepAt(1, ow, MaxHardNum)>> : ow \in owners }

FewReadoutShapes == {<<1>>, <<1, 1>>}

Owners(proto) ==
    IF proto = "SweepProtocol" THEN {"QickInstruction", "QickProtocol"} ELSE {"cfg"}

\* run_program's software sweeps are single cfg entries and it reads one channel
ParamCounts(proto) == IF proto = "SweepProtocol" THEN 1..MaxSweepParams ELSE {1}

\* no external call raises
NoFailure == [op |-> "none", at |-> 0]

\* run() has been entered and nothing has been done yet
RunStart ==
    /\ pc = "start"
    /\ param_value = [p \in Parameters(software_sweeps, hardware_sweeps) |-> 0]
    /\ setpoints = <<>>
    /\ iq_parameters = <<>>
    /\ current_values = <<>>
    /\ n_build = 0
    /\ n_acquire = 0
    /\ program = NoProgram
    /\ iq = [rows |-> 0, points |-> 0]
    /\ results = <<>>
    /\ coords = <<>>
    /\ log = <<>>
    /\ error = ""

InitRun ==
    /\ protocol \in {"SweepProtocol", "S21Protocol"}
    /\ \/ /\ software_sweeps \in SoftwareSweepLists({1}, 0..MaxSoftLen)
          /\ hardware_sweeps \in FewHardwareSweeps(Owners(protocol))
          /\ reads_per_shot \in FewReadoutShapes
       \/ /\ software_sweeps \in SoftwareSweepLists(ParamCounts(protocol), {2})
          /\ hardware_sweeps \in FewHardwareSweeps(Owners(protocol))
          /\ reads_per_shot \in FewReadoutShapes
       \/ /\ software_sweeps \in FewSoftwareSweeps
          /\ hardware_sweeps \in HardwareSweepLists(Owners(protocol))
          /\ reads_per_shot \in FewReadoutShapes
       \/ /\ software_sweeps \in FewSoftwareSweeps
          /\ hardware_sweeps \in FewHardwareSweeps(Owners(protocol))
          /\ reads_per_shot \in ReadoutShapes
    /\ protocol = "S21Protocol" => reads_per_shot = <<1>>
    /\ ro_chs = [i \in 1..Len(reads_per_shot) |-> i - 1]
    /\ run_reads = reads_per_shot
    /\ fail = NoFailure
    /\ RunStart

Idle == [pc |-> "idle"]

\* no channel or protocol parameter takes part
NoDevice == [dacs |-> <<>>, adcs |-> <<>>, protocol |-> <<>>]

\* no sweepable parameter takes part
NoInstrument == [pc |-> "idle"]

Init ==
    /\ InitRun
    /\ built = Idle
    /\ hsweep = Idle
    /\ ssweep = Idle
    /\ device = NoDevice
    /\ instrument = NoInstrument
    /\ device = NoDevice
    /\ instrument = NoInstrument

\* ------------------------------------------------ SweepProtocol.run, setup
Logged(op) == Append(log, [op |-> op, at |-> current_values])

\* the software sweeps before the first one whose value list is empty
\* (sweep.values[0] raises IndexError there)
FirstEmpty(ss) ==
    LET empty == { i \in 1..Len(ss) : Len(ss[i].values) = 0 }
    IN  IF empty = {} THEN Len(ss) + 1
        ELSE CHOOSE i \in empty : \A m \in empty : i <= m

SoftSetpoints(ss, upto) == Flatten([i \in 1..upto |-> ss[i].parameters])

HardSetpoints(hs) == [k \in 1..Len(hs) |-> hs[k].parameter]

\* mutant of RegisterSweepParameters: the sweep parameters are registered but
\* left at the values they had
RegisterSweepParametersUnset ==
    /\ pc = "start"
    /\ protocol = "SweepProtocol"
    /\ LET stop == FirstEmpty(software_sweeps)
           ok   == stop > Len(software_sweeps)
       IN  /\ setpoints' = SoftSetpoints(software_sweeps, stop - 1)
                           \o (IF ok THEN HardSetpoints(hardware_sweeps) ELSE <<>>)
           /\ pc' = IF ok THEN "discover" ELSE "error"
           /\ error' = IF ok THEN "" ELSE "IndexError"
    /\ UNCHANGED <<inputs, param_value,
                   iq_parameters, current_values, n_build, n_acquire, program,
                   iq, results, coords, log>>
    /\ UNCHANGED otherVars

\* run(), "Initialize and register the sweep parameters"
RegisterSweepParameters ==
    /\ pc = "start"
    /\ protocol = "SweepProtocol"
    /\ LET stop == FirstEmpty(software_sweeps)
           ok   == stop > Len(software_sweeps)
       IN  /\ param_value' =
                [p \in DOMAIN param_value |->
                    IF p[1] = "soft" /\ p[2] < stop
                    THEN software_sweeps[p[2]].values[1]
                    ELSE IF p[1] = "hard" /\ ok
                    THEN hardware_sweeps[p[2]].first
                    ELSE param_value[p]]
           /\ setpoints' = SoftSetpoints(software_sweeps, stop - 1)
                           \o (IF ok THEN HardSetpoints(hardware_sweeps) ELSE <<>>)
           /\ pc' = IF ok THEN "discover" ELSE "error"
           /\ error' = IF ok THEN "" ELSE "IndexError"
    /\ UNCHANGED <<inputs,
                   iq_parameters, current_values, n_build, n_acquire, program,
                   iq, results, coords, log>>
    /\ UNCHANGED otherVars

\* the n-th call of the external operation op raises
raises(op, n) == fail.op = op /\ fail.at = n

\* run(), "instantiate the program just to obtain the ADC channel numbers and
\* the number of readouts per experiment": a build without hardware sweeps,
\* then the two assertions on what the program reports
DiscoverReadout ==
    /\ pc = "discover"
    /\ n_build' = n_build + 1
    /\ log' = Logged("build")
    /\ IF raises("build", n_build + 1)
       THEN program' = program /\ pc' = "error" /\ error' = "RuntimeError"
       ELSE /\ program' = generate_program(protocol, <<>>)
            /\ IF Len(ro_chs) = Len(reads_per_shot) /\ SeqSum(reads_per_shot) > 0
               THEN pc' = "register_iq" /\ error' = ""
               ELSE pc' = "error" /\ error' = "AssertionError"
    /\ UNCHANGED <<inputs,
                   param_value, setpoints, iq_parameters, current_values,
                   n_acquire, iq, results, coords>>
    /\ UNCHANGED otherVars

\* adc_channel_nums: the i-th key of program.ro_chs
channel_num(chs, i) == chs[i]

\* mutant of IqName: the channel number is never appended
IqNameNoChannel(reads, chs, i, r) ==
    "iq" \o (IF reads[i] > 1 THEN ToString(r) ELSE "")

\* the name of the data column of readout r (0-based) of the i-th channel:
\* "iq", then the readout number if the channel has more than one readout,
\* then "_ch" and the channel number if there is more than one channel
IqName(reads, chs, i, r) ==
    "iq" \o (IF reads[i] > 1 THEN ToString(r) ELSE "")
         \o (IF Len(chs) > 1 THEN "_ch" \o ToString(channel_num(chs, i)) ELSE "")

\* run(), "create and register the parameters representing the acquired data"
RegisterIqParameters ==
    /\ pc = "register_iq"
    /\ iq_parameters' =
         Flatten([i \in 1..Len(ro_chs) |->
                    [r \in 1..reads_per_shot[i] |->
                       IqName(reads_per_shot, ro_chs, i, r - 1)]])
    /\ pc' = "open"
    /\ UNCHANGED <<inputs,
                   param_value, setpoints, current_values, n_build, n_acquire,
                   program, iq, results, coords, log, error>>
    /\ UNCHANGED otherVars

\* run(), `with meas.run() as datasaver` and the test on len(software_sweeps)
OpenRun ==
    /\ pc = "open"
    /\ pc' = IF Len(software_sweeps) = 0 THEN "build" ELSE "next"
    /\ UNCHANGED <<inputs,
                   param_value, setpoints, iq_parameters, current_values, n_build,
                   n_acquire, program, iq, results, coords, log, error>>
    /\ UNCHANGED otherVars

\* run_program(), the scan of cfg for list-valued entries and the test on
\* len(software_iterators)
CollectIterators ==
    /\ pc = "start"
    /\ protocol = "S21Protocol"
    /\ pc' = IF Len(software_sweeps) = 0 THEN "build" ELSE "next"
    /\ UNCHANGED <<inputs,
                   param_value, setpoints, iq_parameters, current_values, n_build,
                   n_acquire, program, iq, results, coords, log, error>>
    /\ UNCHANGED otherVars

\* ------------------------------------------------------- the sweep loop
LoopDone == IF protocol = "SweepProtocol" THEN "done" ELSE "return"

\* for current_values in product(*soft_sweep_values): the next tuple, if any
NextCombination ==
    /\ pc = "next"
    /\ LET lens == Lens(software_sweeps)
       IN  IF current_values = <<>>
           THEN IF \A i \in 1..Len(lens) : lens[i] > 0
                THEN /\ current_values' = [i \in 1..Len(lens) |-> 1]
                     /\ pc' = "set"
                ELSE /\ current_values' = current_values
                     /\ pc' = LoopDone
           ELSE IF product_exhausted(current_values, lens)
                THEN /\ current_values' = current_values
                     /\ pc' = LoopDone
                ELSE /\ current_values' = product_next(current_values, lens)
                     /\ pc' = "set"
    /\ UNCHANGED <<inputs,
                   param_value, setpoints, iq_parameters, n_build, n_acquire,
                   program, iq, results, coords, log, error>>
    /\ UNCHANGED otherVars

\* mutant of set_parameters: only the first parameter of each sweep is set
set_parameters_first(ss, idx, old) ==
    [p \in DOMAIN old |->
        IF p[1] = "soft" /\ p[3] = 1 THEN ss[p[2]].values[idx[p[2]]] ELSE old[p]]

\* the value every parameter holds after the loop's parameter.set(value) calls
\* (run_program: after cfg[iteratorlist[i]] = coordinate_point[i])
set_parameters(ss, idx, old) ==
    [p \in DOMAIN old |->
        IF p[1] = "soft" THEN ss[p[2]].values[idx[p[2]]] ELSE old[p]]

SetSweptParameters ==
    /\ pc = "set"
    /\ param_value' = set_parameters(software_sweeps, current_values, param_value)
    /\ log' = Logged("set")
    /\ pc' = "build"
    /\ UNCHANGED <<inputs,
                   setpoints, iq_parameters, current_values, n_build, n_acquire,
                   program, iq, results, coords, error>>
    /\ UNCHANGED otherVars

\* mutant of GenerateProgram: the program of the discovery build is reused
GenerateProgramReused ==
    /\ pc = "build"
    /\ pc' = "acquire"
    /\ log' = Logged("build")
    /\ UNCHANGED <<inputs,
                   param_value, setpoints, iq_parameters, current_values, n_build,
                   n_acquire, program, iq, results, coords, error>>
    /\ UNCHANGED otherVars

\* run_hardware_sweeps(): program = self.generate_program(soccfg, hardware_sweeps)
\* (run_program: program = HardwareSweepProgram(soccfg, cfg))
GenerateProgram ==
    /\ pc = "build"
    /\ n_build' = n_build + 1
    /\ log' = Logged("build")
    /\ IF raises("build", n_build + 1)
       THEN program' = program /\ pc' = "error" /\ error' = "RuntimeError"
       ELSE /\ program' = generate_program(protocol, hardware_sweeps)
            /\ IF program'.raised
               THEN pc' = "error" /\ error' = "NotImplementedError"
               ELSE pc' = "acquire" /\ error' = ""
    /\ UNCHANGED <<inputs,
                   param_value, setpoints, iq_parameters, current_values,
                   n_acquire, iq, results, coords>>
    /\ UNCHANGED otherVars

\* what acquire returns for a program: one row per readout of every channel,
\* each holding one sample per point of the program's sweep loops
acquire(prog, hws, reads) ==
    [rows   |-> SeqSum(reads),
     points |-> SeqProd([d \in 1..Len(prog.directives) |-> hws[prog.directives[d]].num])]

\* mutant of Acquire: a failed acquisition is tried again with a new program
AcquireRetried ==
    /\ pc = "acquire"
    /\ n_acquire' = n_acquire + 1
    /\ log' = Logged("acquire")
    /\ IF raises("acquire", n_acquire + 1)
       THEN iq' = iq /\ pc' = "build" /\ error' = "RuntimeError"
       ELSE /\ iq' = acquire(program, hardware_sweeps, run_reads)
            /\ error' = error
            /\ pc' = IF protocol = "S21Protocol" /\ Len(software_sweeps) = 0
                     THEN "return" ELSE "add"
    /\ UNCHANGED <<inputs,
                   param_value, setpoints, iq_parameters, current_values, n_build,
                   program, results, coords>>
    /\ UNCHANGED otherVars

\* run_hardware_sweeps(): iq = AcquireMixin.acquire(self=program, ...), then
\* np.concatenate(iq), which raises ValueError for an empty list of channels;
\* an exception leaves run_hardware_sweeps and run
Acquire ==
    /\ pc = "acquire"
    /\ n_acquire' = n_acquire + 1
    /\ log' = Logged("acquire")
    /\ IF raises("acquire", n_acquire + 1)
       THEN iq' = iq /\ pc' = "error" /\ error' = "RuntimeError"
       ELSE IF run_reads = <<>>
       THEN iq' = iq /\ pc' = "error" /\ error' = "ValueError"
       ELSE /\ iq' = acquire(program, hardware_sweeps, run_reads)
            /\ error' = error
            /\ pc' = IF protocol = "S21Protocol" /\ Len(software_sweeps) = 0
                     THEN "return" ELSE "add"
    /\ UNCHANGED <<inputs,
                   param_value, setpoints, iq_parameters, current_values, n_build,
                   program, results, coords>>
    /\ UNCHANGED otherVars

\* ------------------------------------------------------ result assembly
Entry(column, kind, size, value) ==
    [column |-> column, kind |-> kind, size |-> size, value |-> value]

HardPoints(hws) == SeqProd([k \in 1..Len(hws) |-> hws[k].num])

\* mutant of hardware_result: the last data column is left out
hardware_result_short(iqp, got, hws) ==
    [c \in 1..(Min(Len(iqp), got.rows) - 1) |-> Entry(iqp[c], "iq", got.points, 0)]
    \o [k \in 1..Len(hws) |-> Entry(hws[k].parameter, "grid", HardPoints(hws), 0)]

\* run_hardware_sweeps(), after acquire: zip(iq_parameters, iq), then one
\* meshgrid coordinate array per hardware sweep, in declaration order
hardware_result(iqp, got, hws) ==
    [c \in 1..Min(Len(iqp), got.rows) |-> Entry(iqp[c], "iq", got.points, 0)]
    \o [k \in 1..Len(hws) |-> Entry(hws[k].parameter, "grid", HardPoints(hws), 0)]

\* run(): result.append((parameter, value)) for every software sweep
software_result(ss, idx) ==
    Flatten([i \in 1..Len(idx) |->
               [j \in 1..Len(ss[i].parameters) |->
                  Entry(ss[i].parameters[j], "value", 1, ss[i].values[idx[i]])]])

\* run_program(): what one pass of the loop appends to i_data/q_data,
\* hardware_expt_data and software_expt_data
s21_result(got, hws, ss, idx) ==
    <<Entry("iq", "iq", got.rows * got.points, 0)>>
    \o [k \in 1..Len(hws) |-> Entry(hws[k].parameter, "grid", got.points, 0)]
    \o [i \in 1..Len(idx) |->
          Entry(ss[i].parameters[1], "value", HardPoints(hws), ss[i].values[idx[i]])]

result_block(proto, iqp, got, hws, ss, idx) ==
    IF proto = "SweepProtocol"
    THEN hardware_result(iqp, got, hws) \o software_result(ss, idx)
    ELSE s21_result(got, hws, ss, idx)

\* datasaver.add_result(*result)  (run_program: the extend calls)
AddResult ==
    /\ pc = "add"
    /\ results' = Append(results,
                         result_block(protocol, iq_parameters, iq, hardware_sweeps,
                                      software_sweeps, current_values))
    /\ log' = Logged("add")
    /\ pc' = IF Len(software_sweeps) = 0 THEN "done" ELSE "next"
    /\ UNCHANGED <<inputs,
                   param_value, setpoints, iq_parameters, current_values, n_build,
                   n_acquire, program, iq, coords, error>>
    /\ UNCHANGED otherVars

\* mutant of returned_coordinates: software_expt_data is not reversed
returned_coordinates_unreversed(ss, hws) ==
    [i \in 1..Len(ss) |-> ss[i].parameters[1]] \o HardSetpoints(hws)

\* run_program(): the coordinate list it returns. Without software sweeps it is
\* expt_pts; otherwise software_expt_data.reverse() and then
\* software_expt_data.extend(hardware_expt_data)
returned_coordinates(ss, hws) ==
    Reverse([i \in 1..Len(ss) |-> ss[i].parameters[1]]) \o HardSetpoints(hws)

ReturnData ==
    /\ pc = "return"
    /\ coords' = returned_coordinates(software_sweeps, hardware_sweeps)
    /\ results' = IF Len(software_sweeps) = 0
                  THEN <<s21_result(iq, hardware_sweeps, software_sweeps, <<>>)>>
                  ELSE results
    /\ pc' = "done"
    /\ UNCHANGED <<inputs,
                   param_value, setpoints, iq_parameters, current_values, n_build,
                   n_acquire, program, iq, log, error>>
    /\ UNCHANGED otherVars

\* ------------------------------------------------------------------ Next
Next ==
    \/ RegisterSweepParameters
    \/ DiscoverReadout
    \/ RegisterIqParameters
    \/ OpenRun
    \/ CollectIterators
    \/ NextCombination
    \/ SetSweptParameters
    \/ GenerateProgram
    \/ Acquire
    \/ AddResult
    \/ ReturnData

Spec == Init /\ [][Next]_vars

\* ============================== run() with any readout shape from the library
\* The steps of SweepProtocol.run and run_hardware_sweeps.
NextRun ==
    \/ RegisterSweepParameters
    \/ DiscoverReadout
    \/ RegisterIqParameters
    \/ OpenRun
    \/ NextCombination
    \/ SetSweptParameters
    \/ GenerateProgram
    \/ Acquire
    \/ AddResult

\* ADC channel numbers a protocol's readouts may have
AdcNumbers == {0, 1, 10, 11}

\* program.ro_chs is a dictionary: its keys are pairwise different
ChannelKeys ==
    UNION { { chs \in [1..n -> AdcNumbers] :
                \A a, b \in 1..n : a # b => chs[a] # chs[b] } :
            n \in 0..MaxChannels }

AnyReadoutShapes ==
    UNION { [1..n -> 0..MaxReads] : n \in 0..MaxChannels }

\* what programs built with the hardware sweeps may report, next to what the
\* discovery program reported: the same, one channel less, one channel more
RunShapes(reads) ==
    {reads, Append(reads, 1)}
    \cup (IF reads = <<>> THEN {} ELSE {SubSeq(reads, 1, Len(reads) - 1)})

\* Nothing relates program.ro_chs, program.reads_per_shot and the number of
\* rows acquire returns but the library that computes them. Either the channel
\* numbers are arbitrary, or the shapes are.
InitShape ==
    /\ protocol = "SweepProtocol"
    /\ software_sweeps \in FewSoftwareSweeps
    /\ hardware_sweeps \in FewHardwareSweeps({"QickInstruction"})
    /\ \/ /\ ro_chs \in ChannelKeys
          /\ reads_per_shot \in [1..Len(ro_chs) -> 0..MaxReads]
          /\ run_reads = reads_per_shot
       \/ /\ reads_per_shot \in AnyReadoutShapes
          /\ \E n \in 0..MaxChannels : ro_chs = [i \in 1..n |-> i - 1]
          /\ run_reads \in RunShapes(reads_per_shot)
    /\ fail = NoFailure
    /\ RunStart
    /\ built = Idle
    /\ hsweep = Idle
    /\ ssweep = Idle
    /\ device = NoDevice
    /\ instrument = NoInstrument

SpecShape == InitShape /\ [][NextRun]_vars

\* ==================================== run() with an external call that raises
MaxFailAt == 4

Failures ==
    {NoFailure} \cup [op : {"build", "acquire"}, at : 1..MaxFailAt]

InitFail ==
    /\ protocol = "SweepProtocol"
    /\ software_sweeps \in SoftwareSweepLists({1}, {1, 2})
                           \cup {<<SoftwareSweepAt(1, MaxSweepParams, 2)>>}
    /\ hardware_sweeps \in FewHardwareSweeps(Owners(protocol))
    /\ reads_per_shot = <<1>>
    /\ ro_chs = <<0>>
    /\ run_reads = reads_per_shot
    /\ fail \in Failures
    /\ RunStart
    /\ built = Idle
    /\ hsweep = Idle
    /\ ssweep = Idle
    /\ device = NoDevice
    /\ instrument = NoInstrument

SpecFail == InitFail /\ [][NextRun]_vars

\* ============================================ a builder's initialize(), alone
\* No run is in progress.
RunIdle ==
    /\ protocol = "none"
    /\ software_sweeps = <<>>
    /\ hardware_sweeps = <<>>
    /\ reads_per_shot = <<>>
    /\ ro_chs = <<>>
    /\ run_reads = <<>>
    /\ fail = NoFailure
    /\ pc = "idle"
    /\ param_value = <<>>
    /\ setpoints = <<>>
    /\ iq_parameters = <<>>
    /\ current_values = <<>>
    /\ n_build = 0
    /\ n_acquire = 0
    /\ program = NoProgram
    /\ iq = [rows |-> 0, points |-> 0]
    /\ results = <<>>
    /\ coords = <<>>
    /\ log = <<>>
    /\ error = ""

Builders == {"SweepProgram", "S21Program", "HardwareSweepProgram"}

\* the hardware sweeps a builder may be handed: under S21Program a sweep's
\* parameter is the protocol's pulse_gain or another parameter
BuilderSweep(builder, k, kind, num) ==
    [parameter |-> IF kind = "pulse_gain" THEN pulse_gain ELSE <<"hard", k, 1>>,
     owner     |-> IF builder = "SweepProgram" THEN kind
                   ELSE IF builder = "S21Program" THEN "S21Protocol" ELSE "cfg",
     num       |-> num,
     first     |-> 100 * k + 1]

SweepKinds(builder) ==
    IF builder = "SweepProgram" THEN {"QickInstruction", "QickProtocol"}
    ELSE IF builder = "S21Program" THEN {"pulse_gain", "other"}
    ELSE {"other"}

BuilderSweepLists(builder) ==
    UNION { { [k \in 1..n |-> BuilderSweep(builder, k, kind[k], num[k])] :
                kind \in [1..n -> SweepKinds(builder)], num \in [1..n -> HardNums] } :
            n \in 0..MaxHardSweeps }

InitBuild ==
    /\ RunIdle
    /\ hsweep = Idle
    /\ ssweep = Idle
    /\ device = NoDevice
    /\ instrument = NoInstrument
    /\ \E b \in Builders : \E hws \in BuilderSweepLists(b) :
          built = [pc |-> "initialize", builder |-> b, sweeps |-> hws,
                   visited |-> 0, directives |-> <<>>,
                   instructions |-> <<>>, dacs |-> {}, adcs |-> {}, cfg |-> <<>>,
                   pending |-> {}, emitted |-> <<>>, played |-> <<>>]

\* what a builder adds to the program: a channel declaration, an instruction's
\* configuration or a sweep
Directive(kind, id, args) == [kind |-> kind, id |-> id, args |-> args]

\* one pass of initialize()'s loop over the hardware sweeps: add_sweep for the
\* next sweep in the builder's order, or raise NotImplementedError
AttachSweep ==
    /\ built.pc = "initialize"
    /\ built.visited < Len(built.sweeps)
    /\ LET k == sweep_order(built.builder, built.sweeps)[built.visited + 1]
       IN  IF has_binding(built.builder, built.sweeps[k])
           THEN built' = [built EXCEPT !.visited = @ + 1,
                                       !.directives = Append(@, k),
                                       !.emitted = Append(@, Directive("sweep", k, <<>>))]
           ELSE built' = [built EXCEPT !.pc = "error"]
    /\ UNCHANGED <<runVars, hsweep, ssweep, device, instrument>>

\* the loop is over: initialize() returns
FinishInitialize ==
    /\ built.pc = "initialize"
    /\ built.visited = Len(built.sweeps)
    /\ built' = [built EXCEPT !.pc = "done"]
    /\ UNCHANGED <<runVars, hsweep, ssweep, device, instrument>>

NextBuild == AttachSweep \/ FinishInitialize

SpecBuild == InitBuild /\ [][NextBuild]_vars

\* ================================= SweepProgram.__init__ and initialize(), whole
MaxInstructions == 3

\* the instructions a protocol may hold, each with the channels it uses
InstructionCatalog ==
    { [id |-> 1, dacs |-> {0}, adcs |-> {}],
      [id |-> 2, dacs |-> {0}, adcs |-> {0}],
      [id |-> 3, dacs |-> {1}, adcs |-> {}] }

\* protocol.instructions: a sequence, in which an instruction may occur twice
InstructionLists ==
    UNION { [1..n -> InstructionCatalog] : n \in 0..MaxInstructions }

\* DacChannel's and AdcChannel's parameters and the protocol's
Devices ==
    [dacs : [{0, 1} -> [nqz : {1, 2}, matching_adc : {"None"}]],
     adcs : [{0} -> [type : {"axis_readout_v3", "axis_pfb_readout_v2"},
                     matching_dac : {"None"}, freq : {0}, length : {10}]],
     protocol : [hard_avgs : {1000}, final_delay : {1}, final_wait : {0},
                 initial_delay : {1}]]

InitInit ==
    /\ RunIdle
    /\ hsweep = Idle
    /\ ssweep = Idle
    /\ device \in Devices
    /\ instrument = NoInstrument
    /\ \E ins \in InstructionLists :
       \E hws \in FewHardwareSweeps({"QickInstruction", "QickProtocol"}) :
          built = [pc |-> "construct", builder |-> "SweepProgram", sweeps |-> hws,
                   visited |-> 0, directives |-> <<>>,
                   instructions |-> ins, dacs |-> {}, adcs |-> {}, cfg |-> <<>>,
                   pending |-> {}, emitted |-> <<>>, played |-> <<>>]

\* SweepProgram.__init__: the channels of all instructions, then the options
\* handed to AveragerProgramV2.__init__, which goes on to call initialize()
Construct ==
    /\ built.pc = "construct"
    /\ LET ins  == built.instructions
           dacs == UNION { ins[i].dacs : i \in 1..Len(ins) }
           adcs == UNION { ins[i].adcs : i \in 1..Len(ins) }
       IN  built' = [built EXCEPT
                       !.pc = "dacs",
                       !.dacs = dacs,
                       !.adcs = adcs,
                       !.pending = dacs,
                       !.cfg = [reps          |-> device.protocol.hard_avgs,
                                final_delay   |-> device.protocol.final_delay * 1000000,
                                final_wait    |-> device.protocol.final_wait * 1000000,
                                initial_delay |-> device.protocol.initial_delay * 1000000]]
    /\ UNCHANGED <<runVars, hsweep, ssweep, device, instrument>>

\* mutant of DeclareDac: declaring a generator puts it into the first Nyquist zone
DeclareDacResetting ==
    /\ built.pc = "dacs"
    /\ \E ch \in built.pending :
          /\ built' = [built EXCEPT
                         !.pending = @ \ {ch},
                         !.emitted = Append(@, Directive("declare_gen", ch,
                                                         [nqz |-> 1]))]
          /\ device' = [device EXCEPT !.dacs[ch].nqz = 1]
    /\ UNCHANGED <<runVars, hsweep, ssweep, instrument>>

\* for dac in self.dacs: dac.initialize(self); a set is walked in any order
DeclareDac ==
    /\ built.pc = "dacs"
    /\ \E ch \in built.pending :
          built' = [built EXCEPT
                      !.pending = @ \ {ch},
                      !.emitted = Append(@, Directive("declare_gen", ch,
                                                      [nqz |-> device.dacs[ch].nqz]))]
    /\ UNCHANGED <<runVars, hsweep, ssweep, device, instrument>>

\* AdcChannel.initialize: a tProc-configured readout is declared and then
\* configured, a PYNQ-configured readout is declared with its frequency
adc_directives(ch, adc) ==
    IF adc.type \in {"axis_readout_v3", "axis_dyn_readout_v1"}
    THEN <<Directive("declare_readout", ch, [length |-> adc.length * 1000000]),
           Directive("add_readoutconfig", ch,
                     [freq |-> adc.freq, phase |-> 0, gen_ch |-> adc.matching_dac]),
           Directive("send_readoutconfig", ch, <<>>)>>
    ELSE <<Directive("declare_readout", ch,
                     [freq |-> adc.freq, phase |-> 0,
                      length |-> adc.length * 1000000,
                      gen_ch |-> adc.matching_dac])>>

\* for adc in self.adcs: adc.initialize(self)
DeclareAdc ==
    /\ built.pc = "adcs"
    /\ \E ch \in built.pending :
          built' = [built EXCEPT
                      !.pending = @ \ {ch},
                      !.emitted = @ \o adc_directives(ch, device.adcs[ch])]
    /\ UNCHANGED <<runVars, hsweep, ssweep, device, instrument>>

\* mutant of instructions_to_initialize: no instruction is left out
instructions_to_initialize_all(ins) == 1..Len(ins)

\* set(self.protocol.instructions): an instruction that occurs twice is in the
\* set once; the positions of the first occurrences stand for the set
instructions_to_initialize(ins) ==
    { i \in 1..Len(ins) : \A j \in 1..(i - 1) : ins[j] # ins[i] }

\* QickInstruction.initialize(program): the instruction's configuration
\* directive is added to the program; the instruction is left as it is
instruction_initialize(instruction) == Directive("configure", instruction.id, <<>>)

\* for instruction in set(self.protocol.instructions): instruction.initialize(self)
InitializeInstruction ==
    /\ built.pc = "instructions"
    /\ \E i \in built.pending :
          built' = [built EXCEPT
                      !.pending = @ \ {i},
                      !.emitted = Append(@, instruction_initialize(built.instructions[i]))]
    /\ UNCHANGED <<runVars, hsweep, ssweep, device, instrument>>

\* a loop of initialize() has visited everything: the next loop starts
LoopOver ==
    /\ built.pc \in {"dacs", "adcs", "instructions"}
    /\ built.pending = {}
    /\ built' = [built EXCEPT
                   !.pc = IF built.pc = "dacs" THEN "adcs"
                          ELSE IF built.pc = "adcs" THEN "instructions"
                          ELSE "initialize",
                   !.pending = IF built.pc = "dacs" THEN built.adcs
                               ELSE IF built.pc = "adcs"
                               THEN instructions_to_initialize(built.instructions)
                               ELSE {}]
    /\ UNCHANGED <<runVars, hsweep, ssweep, device, instrument>>

\* SimpleSweepProgram.body: for instruction in self.protocol.instructions:
\* instruction.play(self)
PlayBody ==
    /\ built.pc = "done"
    /\ built.builder = "SweepProgram"
    /\ built' = [built EXCEPT
                   !.pc = "compiled",
                   !.played = [i \in 1..Len(built.instructions) |->
                                 built.instructions[i].id]]
    /\ UNCHANGED <<runVars, hsweep, ssweep, device, instrument>>

NextInit ==
    \/ Construct
    \/ DeclareDac
    \/ DeclareAdc
    \/ InitializeInstruction
    \/ LoopOver
    \/ AttachSweep
    \/ FinishInitialize
    \/ PlayBody

SpecInit == InitInit /\ [][NextInit]_vars

\* ===================================================== HardwareSweep.__init__
\* Physical values are whole multiples of a unit far below every quantization
\* step, so a quotient of two of them is an exact fraction xn / xd.

\* a / b rounded to an integer the way the parameter's conversion rounds
QuantRound(mode, a, b) ==
    IF mode = "floor" THEN a \div b
    ELSE IF mode = "nearest" THEN (2 * a + b) \div (2 * b)
    ELSE IF a >= 0 THEN a \div b ELSE -((-a) \div b)

RoundingModes == {"floor", "nearest", "truncate"}

\* HardwareParameter.float2int of the value xn / xd (xd > 0): a fixed scale
\* factor and an additive offset
float2int(par, xn, xd) == QuantRound(par.rounding, xn - par.offset * xd, xd * par.scale)

\* HardwareParameter.int2float
int2float(par, code) == code * par.scale + par.offset

HardwareParameters ==
    [scale : 1..MaxScale, offset : 0..MaxOffset, rounding : RoundingModes]

\* self.step_int = parameter.float2int((stop - start) / (num - 1)), num # 1
step_int_of(par, args) ==
    IF args.num > 1
    THEN float2int(par, args.stop - args.start, args.num - 1)
    ELSE float2int(par, args.start - args.stop, 1 - args.num)

\* start_int + self.step_int * np.arange(num, dtype=np.int64)
arange_codes(start_int, step_int, num) ==
    [k \in 1..num |-> start_int + step_int * (k - 1)]

\* mutant of skip_first: the slice starts one entry too late
skip_first_twice(codes, flag) ==
    IF flag THEN SubSeq(codes, 3, Len(codes)) ELSE codes

\* if skip_first: self.values_int = self.values_int[1:]
skip_first(codes, flag) ==
    IF flag THEN SubSeq(codes, 2, Len(codes)) ELSE codes

\* if skip_last: self.values_int = self.values_int[:-1]
skip_last(codes, flag) ==
    IF flag THEN SubSeq(codes, 1, Len(codes) - 1) ELSE codes

\* mutant of endpoints: first and last entry are exchanged
endpoints_swapped(codes) ==
    [start_int |-> codes[Len(codes)], stop_int |-> codes[1], num |-> Len(codes)]

\* self.start_int = values_int[0]; self.stop_int = values_int[-1]; self.num
endpoints(codes) ==
    [start_int |-> codes[1], stop_int |-> codes[Len(codes)], num |-> Len(codes)]

InitHW ==
    /\ RunIdle
    /\ built = Idle
    /\ ssweep = Idle
    /\ device = NoDevice
    /\ instrument = NoInstrument
    /\ \E par \in HardwareParameters :
       \E a \in 0..MaxStart, b \in 0..MaxPhys, n \in 0..MaxCount, sf, sl \in BOOLEAN :
          hsweep = [pc |-> "step", error |-> "", parameter |-> par,
                    args |-> [start |-> a, stop |-> b, num |-> n,
                              skip_first |-> sf, skip_last |-> sl],
                    codes |-> <<>>,          \* values_int before trimming
                    self |-> <<>>]           \* the attributes assigned so far

\* the object with one more attribute assigned
SetAttr(obj, name, value) == [a \in DOMAIN obj \cup {name} |->
                                 IF a = name THEN value ELSE obj[a]]

\* line 78
HS_Step ==
    /\ hsweep.pc = "step"
    /\ IF hsweep.args.num = 1
       THEN hsweep' = [hsweep EXCEPT !.pc = "error", !.error = "ZeroDivisionError"]
       ELSE hsweep' = [hsweep EXCEPT
                         !.pc = "values",
                         !.self = SetAttr(@, "step_int",
                                          step_int_of(hsweep.parameter, hsweep.args))]
    /\ UNCHANGED <<runVars, built, ssweep, device, instrument>>

\* lines 79-80
HS_Values ==
    /\ hsweep.pc = "values"
    /\ LET start_int == float2int(hsweep.parameter, hsweep.args.start, 1)
           codes     == arange_codes(start_int, hsweep.self.step_int, hsweep.args.num)
       IN  hsweep' = [hsweep EXCEPT !.pc = "skip_first",
                                    !.codes = codes,
                                    !.self = SetAttr(@, "values_int", codes)]
    /\ UNCHANGED <<runVars, built, ssweep, device, instrument>>

\* lines 81-82
HS_SkipFirst ==
    /\ hsweep.pc = "skip_first"
    /\ hsweep' = [hsweep EXCEPT
                    !.pc = "skip_last",
                    !.self = SetAttr(@, "values_int",
                                     skip_first(hsweep.self.values_int,
                                                hsweep.args.skip_first))]
    /\ UNCHANGED <<runVars, built, ssweep, device, instrument>>

\* lines 83-84
HS_SkipLast ==
    /\ hsweep.pc = "skip_last"
    /\ hsweep' = [hsweep EXCEPT
                    !.pc = "endpoints",
                    !.self = SetAttr(@, "values_int",
                                     skip_last(hsweep.self.values_int,
                                               hsweep.args.skip_last))]
    /\ UNCHANGED <<runVars, built, ssweep, device, instrument>>

\* lines 85-87; values_int[0] of an empty array raises IndexError
HS_Endpoints ==
    /\ hsweep.pc = "endpoints"
    /\ IF hsweep.self.values_int = <<>>
       THEN hsweep' = [hsweep EXCEPT !.pc = "error", !.error = "IndexError"]
       ELSE LET ends == endpoints(hsweep.self.values_int)
            IN  hsweep' = [hsweep EXCEPT
                             !.pc = "floats",
                             !.self = SetAttr(SetAttr(SetAttr(@,
                                         "start_int", ends.start_int),
                                         "stop_int", ends.stop_int),
                                         "num", ends.num)]
    /\ UNCHANGED <<runVars, built, ssweep, device, instrument>>

\* lines 89-92
HS_Floats ==
    /\ hsweep.pc = "floats"
    /\ LET par == hsweep.parameter
           me  == hsweep.self
       IN  hsweep' = [hsweep EXCEPT
                        !.pc = "done",
                        !.self = SetAttr(SetAttr(SetAttr(SetAttr(@,
                                    "start", int2float(par, me.start_int)),
                                    "stop", int2float(par, me.stop_int)),
                                    "step", int2float(par, me.step_int)),
                                    "values", [k \in 1..Len(me.values_int) |->
                                                 int2float(par, me.values_int[k])])]
    /\ UNCHANGED <<runVars, built, ssweep, device, instrument>>

NextHW ==
    \/ HS_Step
    \/ HS_Values
    \/ HS_SkipFirst
    \/ HS_SkipLast
    \/ HS_Endpoints
    \/ HS_Floats

SpecHW == InitHW /\ [][NextHW]_vars

\* ===================================================== SoftwareSweep.__init__
Units == {"Hz", "sec"}

\* the `parameters` argument: one Parameter, or a sequence of them; a parameter
\* is described by its unit
ParameterArguments ==
    { [single |-> TRUE, units |-> <<u>>] : u \in Units }
    \cup UNION { { [single |-> FALSE, units |-> us] : us \in [1..n -> Units] } :
                 n \in 0..MaxSweepParams }

\* the `start`, `stop`, `num` arguments: an explicit sequence as `start`, or
\* the three numbers handed to np.linspace
ValueArguments ==
    { [explicit |-> TRUE, list |-> [k \in 1..n |-> <<k, 1>>],
       start |-> 0, stop |-> 0, num |-> 0] : n \in 0..MaxSoftLen }
    \cup { [explicit |-> FALSE, list |-> <<>>, start |-> 0, stop |-> MaxPhys,
            num |-> n] : n \in 0..MaxSoftLen }

\* np.linspace(start, stop, num): num evenly spaced values, both ends included;
\* a value is the fraction <<numerator, denominator>>
linspace(start, stop, num) ==
    IF num = 1 THEN << <<start, 1>> >>
    ELSE [k \in 1..num |-> <<start * (num - 1) + (k - 1) * (stop - start), num - 1>>]

InitSW ==
    /\ RunIdle
    /\ built = Idle
    /\ hsweep = Idle
    /\ device = NoDevice
    /\ instrument = NoInstrument
    /\ \E pa \in ParameterArguments, va \in ValueArguments, sf, sl \in BOOLEAN :
          ssweep = [pc |-> "parameters", error |-> "",
                    args |-> [parameters |-> pa, values |-> va,
                              skip_first |-> sf, skip_last |-> sl],
                    calls |-> <<>>,        \* value computations done so far
                    self |-> <<>>]         \* the attributes assigned so far

\* lines 48-51
SS_Parameters ==
    /\ ssweep.pc = "parameters"
    /\ ssweep' = [ssweep EXCEPT
                    !.pc = "units",
                    !.self = SetAttr(@, "parameters", ssweep.args.parameters.units)]
    /\ UNCHANGED <<runVars, built, hsweep, device, instrument>>

\* mutant of SS_CheckUnits: the assertion is missing
SS_CheckUnitsMissing ==
    /\ ssweep.pc = "units"
    /\ ssweep' = [ssweep EXCEPT !.pc = "values"]
    /\ UNCHANGED <<runVars, built, hsweep, device, instrument>>

\* line 54: assert len({parameter.unit for parameter in self.parameters}) == 1
SS_CheckUnits ==
    /\ ssweep.pc = "units"
    /\ LET units == { ssweep.self.parameters[i] : i \in 1..Len(ssweep.self.parameters) }
       IN  IF Cardinality(units) = 1
           THEN ssweep' = [ssweep EXCEPT !.pc = "values"]
           ELSE ssweep' = [ssweep EXCEPT !.pc = "error", !.error = "AssertionError"]
    /\ UNCHANGED <<runVars, built, hsweep, device, instrument>>

\* lines 56-59
SS_Values ==
    /\ ssweep.pc = "values"
    /\ LET va == ssweep.args.values
       IN  IF va.explicit
           THEN ssweep' = [ssweep EXCEPT !.pc = "skip_first",
                                         !.self = SetAttr(@, "values", va.list)]
           ELSE ssweep' = [ssweep EXCEPT
                             !.pc = "skip_first",
                             !.calls = Append(@, "linspace"),
                             !.self = SetAttr(@, "values",
                                              linspace(va.start, va.stop, va.num))]
    /\ UNCHANGED <<runVars, built, hsweep, device, instrument>>

\* lines 60-61
SS_SkipFirst ==
    /\ ssweep.pc = "skip_first"
    /\ IF ssweep.args.skip_first
       THEN ssweep' = [ssweep EXCEPT
                         !.pc = "skip_last",
                         !.calls = Append(@, "skip_first"),
                         !.self = SetAttr(@, "values",
                                          skip_first(ssweep.self.values, TRUE))]
       ELSE ssweep' = [ssweep EXCEPT !.pc = "skip_last"]
    /\ UNCHANGED <<runVars, built, hsweep, device, instrument>>

\* lines 62-63
SS_SkipLast ==
    /\ ssweep.pc = "skip_last"
    /\ IF ssweep.args.skip_last
       THEN ssweep' = [ssweep EXCEPT
                         !.pc = "done",
                         !.calls = Append(@, "skip_last"),
                         !.self = SetAttr(@, "values",
                                          skip_last(ssweep.self.values, TRUE))]
       ELSE ssweep' = [ssweep EXCEPT !.pc = "done"]
    /\ UNCHANGED <<runVars, built, hsweep, device, instrument>>

NextSW ==
    \/ SS_Parameters
    \/ SS_CheckUnits
    \/ SS_Values
    \/ SS_SkipFirst
    \/ SS_SkipLast

SpecSW == InitSW /\ [][NextSW]_vars

\* ============================== value assignments to sweepable parameters
MaxSweepable == 2

\* the sweepable parameters of one instrument, by class
SweepableParams ==
    {"SweepableParameter", "SweepableOrAutoParameter"} \X (1..MaxSweepable)

\* the values one may try to assign: a number inside or outside the
\* parameter's range, a QickParam inside or outside it, the string 'auto'
AssignedValues ==
    {"number", "number_out_of_range", "QickParam", "QickParam_out_of_range", "auto"}

\* vals=SweepableNumbers(min_value, max_value), and for the second class
\* MultiType(SweepableNumbers(min_value, max_value), Enum("auto"))
validate(class, value) ==
    \/ value \in {"number", "QickParam"}
    \/ value = "auto" /\ class = "SweepableOrAutoParameter"

\* mutant of set_parser: a parameter is never removed from swept_params
set_parser_keeping(self, value, swept_params) ==
    IF value = "QickParam" THEN swept_params \cup {self} ELSE swept_params

\* set_parser of both classes: what swept_params is afterwards
set_parser(self, value, swept_params) ==
    IF value = "QickParam" THEN swept_params \cup {self}
    ELSE IF self \in swept_params THEN swept_params \ {self}
    ELSE swept_params

InitParams ==
    /\ RunIdle
    /\ built = Idle
    /\ hsweep = Idle
    /\ ssweep = Idle
    /\ device = NoDevice
    /\ instrument = [pc |-> "ready",
                     swept_params |-> {},
                     value |-> [q \in SweepableParams |-> "none"],
                     last |-> <<>>]

\* parameter.set(value), the constructor's set of initial_value included: the
\* value is validated, then set_parser runs and the value is stored; `last`
\* is the call and whether it raised
parameter_set(inst, self, value) ==
    IF validate(self[1], value)
    THEN [inst EXCEPT !.swept_params = set_parser(self, value, @),
                      !.value[self] = value,
                      !.last = <<self, value, "">>]
    ELSE [inst EXCEPT !.last = <<self, value, "ValueError">>]

SetSweepableParameter ==
    /\ instrument.pc = "ready"
    /\ \E i \in 1..MaxSweepable, v \in AssignedValues :
          instrument' = parameter_set(instrument, <<"SweepableParameter", i>>, v)
    /\ UNCHANGED <<runVars, built, hsweep, ssweep, device>>

SetSweepableOrAutoParameter ==
    /\ instrument.pc = "ready"
    /\ \E i \in 1..MaxSweepable, v \in AssignedValues :
          instrument' = parameter_set(instrument, <<"SweepableOrAutoParameter", i>>, v)
    /\ UNCHANGED <<runVars, built, hsweep, ssweep, device>>

NextParams == SetSweepableParameter \/ SetSweepableOrAutoParameter

SpecParams == InitParams /\ [][NextParams]_vars

\* =================================================================== claims
\* The r-th tuple (r = 0, 1, ...) of the Cartesian product of index ranges
\* 1..lens[1], ..., 1..lens[n] in lexicographic order, first position most
\* significant (first sweep outermost, last sweep innermost).
Unrank(r, lens) ==
    [i \in 1..Len(lens) |->
        ((r \div SeqProd(SubSeq(lens, i + 1, Len(lens)))) % lens[i]) + 1]

\* the calls logged inside the software sweep loop with the given name
LoopCalls(op) == SelectSeq(log, LAMBDA e : e.op = op /\ e.at # <<>>)

Combinations == SeqProd(Lens(software_sweeps))

\* C1: with software sweeps declared [A, B, ...] the parameter-set and acquire
\* steps visit the Cartesian product of the value lists in declaration order,
\* first-declared outermost and last-declared innermost; at the end of a run
\* every combination has been visited exactly once.
C1_ProductOrder ==
    Len(software_sweeps) > 0 =>
        /\ \A op \in {"set", "acquire"} :
             LET calls == LoopCalls(op)
                 lens  == Lens(software_sweeps)
             IN  \A r \in 1..Len(calls) : calls[r].at = Unrank(r - 1, lens)
        /\ pc = "done" =>
             /\ Len(LoopCalls("set")) = Combinations
             /\ Len(LoopCalls("acquire")) = Combinations

\* C1 witness: A with 3 values and B with 2 values under SweepProtocol.run,
\* visited (A0,B0),(A0,B1),(A1,B0),(A1,B1),(A2,B0),(A2,B1).
C1_Witness ==
    /\ protocol = "SweepProtocol"
    /\ pc = "done"
    /\ Lens(software_sweeps) = <<3, 2>>
    /\ [r \in 1..Len(LoopCalls("acquire")) |-> LoopCalls("acquire")[r].at]
         = << <<1, 1>>, <<1, 2>>, <<2, 1>>, <<2, 2>>, <<3, 1>>, <<3, 2>> >>

RECURSIVE IqSamples(_)
\* the number of sample values in the "iq" entries of a result block
IqSamples(block) ==
    IF block = <<>> THEN 0
    ELSE (IF Head(block).kind = "iq" THEN Head(block).size ELSE 0)
         + IqSamples(Tail(block))

TotalSamples == SeqSum([b \in 1..Len(results) |-> IqSamples(results[b])])

\* C2: after a run that completes without error the number of sample values
\* handed over equals (product of the software axis lengths) x (product of
\* the hardware axis lengths) x (number of (channel, shot index) columns).
C2_SampleCount ==
    pc = "done" =>
        TotalSamples = Combinations * HardPoints(hardware_sweeps)
                                    * SeqSum(reads_per_shot)

\* C2 witness: software axes (3, 2), hardware axes (5,), 2 readout channels
\* with one readout each: 60 sample values.
C2_Witness ==
    /\ protocol = "SweepProtocol"
    /\ pc = "done"
    /\ Lens(software_sweeps) = <<3, 2>>
    /\ [k \in 1..Len(hardware_sweeps) |-> hardware_sweeps[k].num] = <<5>>
    /\ reads_per_shot = <<1, 1>>
    /\ TotalSamples = 60

\* some hardware sweep's parameter is not owned by a QickInstruction
HasUnboundSweep ==
    \E k \in 1..Len(hardware_sweeps) : hardware_sweeps[k].owner # "QickInstruction"

\* C4: if some requested hardware sweep targets a parameter without a register
\* binding, SweepProtocol.run never completes, it can only end in an error,
\* and acquire has never been called, whatever the number of software sweeps.
C4_UnboundSweepFails ==
    (protocol = "SweepProtocol" /\ HasUnboundSweep) =>
        /\ n_acquire = 0
        /\ pc # "done"
        /\ (pc = "error" \/ ENABLED Next)
        /\ (pc = "error" => error # "")

\* C4 witness: the builder has raised NotImplementedError inside the software
\* sweep loop and no acquire call has been made.
C4_Witness ==
    /\ protocol = "SweepProtocol"
    /\ Len(software_sweeps) > 0
    /\ HasUnboundSweep
    /\ error = "NotImplementedError"
    /\ n_acquire = 0

\* C8 as stated: a SweepProtocol.run without software sweeps makes exactly one
\* program build, one acquire call and one result block over the whole run.
C8_OneBuild ==
    (protocol = "SweepProtocol" /\ Len(software_sweeps) = 0 /\ pc = "done") =>
        n_build = 1 /\ n_acquire = 1 /\ Len(results) = 1

\* C8 amended: a SweepProtocol.run without software sweeps makes exactly two
\* program builds (the discovery build without hardware sweeps, then the build
\* with them), exactly one acquire call and exactly one result block.
C8_TwoBuildsOneAcquire ==
    (protocol = "SweepProtocol" /\ Len(software_sweeps) = 0) =>
        /\ n_build <= 2 /\ n_acquire <= 1 /\ Len(results) <= 1
        /\ pc = "done" => n_build = 2 /\ n_acquire = 1 /\ Len(results) = 1
        /\ pc = "done" =>
             [i \in 1..Len(log) |-> log[i].op] = <<"build", "build", "acquire", "add">>

\* C8 witness: a completed run without software sweeps and with hardware sweeps
C8_Witness ==
    /\ protocol = "SweepProtocol"
    /\ Len(software_sweeps) = 0
    /\ Len(hardware_sweeps) > 0
    /\ pc = "done"
    /\ n_build = 2

\* the calls logged inside the software sweep loop, in order
LoopLog == SelectSeq(log, LAMBDA e : e.at # <<>>)

LoopPattern == <<"set", "build", "acquire", "add">>

\* the (column, value) pairs of a block's software coordinate entries
SoftwareCoordinates(block) ==
    LET vs == SelectSeq(block, LAMBDA e : e.kind = "value")
    IN  [q \in 1..Len(vs) |-> <<vs[q].column, vs[q].value>>]

\* the (parameter, value) pairs of the r-th combination (r = 0, 1, ...), every
\* parameter of every software sweep, sweeps in declaration order
ExpectedCoordinates(r) ==
    LET idx == Unrank(r, Lens(software_sweeps))
    IN  Flatten([i \in 1..Len(software_sweeps) |->
                   [j \in 1..Len(software_sweeps[i].parameters) |->
                      <<software_sweeps[i].parameters[j],
                        software_sweeps[i].values[idx[i]]>>]])

\* C9: with software sweeps, every combination of the Cartesian product gets,
\* in this order, a set of every parameter of every software sweep, a build,
\* one acquire and one result block whose software coordinates are exactly that
\* combination; when acquire is called every software-swept parameter holds the
\* combination's value; a completed run has made one acquire per combination.
C9_PerCombination ==
    Len(software_sweeps) > 0 =>
        /\ LET calls == LoopLog
               lens  == Lens(software_sweeps)
           IN  \A q \in 1..Len(calls) :
                  /\ calls[q].op = LoopPattern[((q - 1) % 4) + 1]
                  /\ calls[q].at = Unrank((q - 1) \div 4, lens)
        /\ pc = "acquire" =>
             \A i \in 1..Len(software_sweeps) :
                \A j \in 1..Len(software_sweeps[i].parameters) :
                   param_value[software_sweeps[i].parameters[j]]
                     = software_sweeps[i].values[current_values[i]]
        /\ \A r \in 1..Len(results) :
             SoftwareCoordinates(results[r]) = ExpectedCoordinates(r - 1)
        /\ Len(results) = Len(LoopCalls("add"))
        /\ pc = "done" =>
             /\ n_acquire = Combinations
             /\ Len(results) = Combinations

\* C9 witness: a completed SweepProtocol.run over two software sweeps, one of
\* them over two parameters, with several combinations
C9_Witness ==
    /\ protocol = "SweepProtocol"
    /\ pc = "done"
    /\ Len(software_sweeps) = 2
    /\ Len(software_sweeps[1].parameters) = 2
    /\ n_acquire = 4
    /\ Len(results) = 4

SoftAxisColumns == [i \in 1..Len(software_sweeps) |-> software_sweeps[i].parameters[1]]

\* C10 as stated: the coordinate columns are exactly one per sweep axis,
\* software axes first in declaration order and then the hardware axes, both in
\* the setpoint list registered by SweepProtocol.run and in the coordinate list
\* returned by S21Protocol.run_program.
C10_OneColumnPerAxis ==
    /\ (protocol = "SweepProtocol" /\ pc \notin {"start", "error"}) =>
          /\ Len(setpoints) = Len(software_sweeps) + Len(hardware_sweeps)
          /\ setpoints = SoftAxisColumns \o HardSetpoints(hardware_sweeps)
    /\ (protocol = "S21Protocol" /\ pc = "done") =>
          coords = SoftAxisColumns \o HardSetpoints(hardware_sweeps)

\* the number of setpoint columns before those of software sweep i
ColumnsBefore(i) ==
    SeqSum([m \in 1..(i - 1) |-> Len(software_sweeps[m].parameters)])

\* C10 amended: SweepProtocol.run registers one setpoint column per parameter
\* of every software sweep (a sweep over k parameters gives k columns), sweeps
\* in declaration order, followed by one column per hardware sweep in
\* declaration order; S21Protocol.run_program returns the software axes in
\* reverse declaration order (last-declared first) followed by the hardware
\* axes in declaration order.
C10_ColumnOrder ==
    /\ (protocol = "SweepProtocol" /\ pc \notin {"start", "error"}) =>
          LET n  == Len(software_sweeps)
              ns == ColumnsBefore(n + 1)
          IN  /\ Len(setpoints) = ns + Len(hardware_sweeps)
              /\ \A i \in 1..n :
                   \A j \in 1..Len(software_sweeps[i].parameters) :
                      setpoints[ColumnsBefore(i) + j] = software_sweeps[i].parameters[j]
              /\ \A k \in 1..Len(hardware_sweeps) :
                   setpoints[ns + k] = hardware_sweeps[k].parameter
    /\ (protocol = "S21Protocol" /\ pc = "done") =>
          LET n == Len(software_sweeps)
          IN  /\ Len(coords) = n + Len(hardware_sweeps)
              /\ \A i \in 1..n :
                   coords[n + 1 - i] = software_sweeps[i].parameters[1]
              /\ \A k \in 1..Len(hardware_sweeps) :
                   coords[n + k] = hardware_sweeps[k].parameter

\* C10 witness: run_program has returned after two software sweeps and one
\* hardware sweep, the last-declared software axis in the first column
C10_Witness ==
    /\ protocol = "S21Protocol"
    /\ pc = "done"
    /\ Len(software_sweeps) = 2
    /\ Len(hardware_sweeps) = 1
    /\ Len(results) > 0
    /\ coords[1] = software_sweeps[2].parameters[1]

\* positions of the attached directives are in reverse declaration order
Descending(d) == \A a, b \in 1..Len(d) : a < b => d[a] > d[b]

Ascending(d) == \A a, b \in 1..Len(d) : a < b => d[a] < d[b]

\* C3 as stated: every program builder attaches the sweep directives in
\* reverse declaration order (for sweeps declared [X, Y], Y's before X's).
C3_AllReversed ==
    /\ Descending(built.directives)
    /\ built.pc = "done" =>
         built.directives = [i \in 1..Len(built.sweeps) |-> Len(built.sweeps) + 1 - i]

\* C3 amended: S21Program.initialize attaches the sweep directives in reverse
\* declaration order (for [X, Y], Y's before X's); SweepProgram.initialize and
\* HardwareSweepProgram.initialize attach them in declaration order (X's
\* before Y's). A completed initialize has attached one directive per sweep;
\* the run's builder operator agrees with the loop.
C3_AttachOrder ==
    /\ built.builder = "S21Program" =>
         /\ Descending(built.directives)
         /\ built.pc = "done" =>
              built.directives
                = [i \in 1..Len(built.sweeps) |-> Len(built.sweeps) + 1 - i]
    /\ built.builder \in {"SweepProgram", "HardwareSweepProgram"} =>
         /\ Ascending(built.directives)
         /\ built.pc = "done" =>
              built.directives = [i \in 1..Len(built.sweeps) |-> i]
    /\ built.pc \in {"done", "error"} =>
         /\ built.directives = initialize(built.builder, built.sweeps).directives
         /\ (built.pc = "error") = initialize(built.builder, built.sweeps).raised

\* C3 witness: S21Program.initialize has attached two sweeps, the
\* second-declared first
C3_Witness ==
    /\ built.pc = "done"
    /\ built.builder = "S21Program"
    /\ built.directives = <<2, 1>>

Abs(x) == IF x >= 0 THEN x ELSE -x

Flag(b) == IF b THEN 1 ELSE 0

\* C6: for a HardwareSweep built from (start, stop, count) with count >= 2 the
\* integer code list before trimming has exactly count entries in arithmetic
\* progression with difference step_int; skip_first removes exactly the first
\* entry and skip_last exactly the last; afterwards num = count - skip_first -
\* skip_last, start_int and stop_int are the first and last remaining codes,
\* stop_int = start_int + (num - 1) * step_int, and the physical value list
\* has num entries, the conversions of the remaining codes.
C6_CodeList ==
    LET h     == hsweep
        count == h.args.num
        sf    == Flag(h.args.skip_first)
        sl    == Flag(h.args.skip_last)
        me    == h.self
    IN  (h.pc # "idle" /\ count >= 2) =>
          /\ h.pc = "skip_first" =>
               /\ Len(me.values_int) = count
               /\ \A k \in 1..count :
                    me.values_int[k] = me.values_int[1] + (k - 1) * me.step_int
               /\ h.codes = me.values_int
          /\ h.pc = "skip_last" =>
               /\ Len(me.values_int) = count - sf
               /\ \A k \in 1..(count - sf) : me.values_int[k] = h.codes[k + sf]
          /\ h.pc \in {"endpoints", "floats", "done"} =>
               /\ Len(me.values_int) = count - sf - sl
               /\ \A k \in 1..(count - sf - sl) : me.values_int[k] = h.codes[k + sf]
          /\ h.pc \in {"floats", "done"} =>
               /\ me.num = count - sf - sl
               /\ me.start_int = h.codes[1 + sf]
               /\ me.stop_int = h.codes[count - sl]
               /\ me.stop_int = me.start_int + (me.num - 1) * me.step_int
          /\ h.pc = "done" =>
               /\ Len(me.values) = me.num
               /\ \A k \in 1..me.num :
                    me.values[k] = int2float(h.parameter, h.codes[k + sf])

\* C6 witness: (start, stop, count) = (0, 10, 5) with skip_first: 4 entries,
\* the first of them the second original value
C6_Witness ==
    /\ hsweep.pc = "done"
    /\ hsweep.args = [start |-> 0, stop |-> 10, num |-> 5,
                      skip_first |-> TRUE, skip_last |-> FALSE]
    /\ Len(hsweep.codes) = 5
    /\ Len(hsweep.self.values) = 4
    /\ hsweep.self.values[1] = int2float(hsweep.parameter, hsweep.codes[2])
    /\ hsweep.self.values[1] # int2float(hsweep.parameter, hsweep.codes[1])

\* C7: for every parameter (each one is met when a construction starts) and
\* every value v = xn / xd of its domain, int2float(float2int(v)) differs from
\* v by at most one quantization step int2float(1) - int2float(0); the resolved
\* start of a HardwareSweep built without skip_first is within one
\* quantization step of the requested start.
C7_RoundTrip ==
    LET par     == hsweep.parameter
        quantum == int2float(par, 1) - int2float(par, 0)
    IN  hsweep.pc # "idle" =>
          /\ hsweep.pc = "step" =>
                \A xn \in (-MaxPhys)..MaxPhys : \A xd \in 1..MaxCount :
                   Abs(int2float(par, float2int(par, xn, xd)) * xd - xn) <= quantum * xd
          /\ (hsweep.pc = "done" /\ ~hsweep.args.skip_first) =>
                Abs(hsweep.self.start - hsweep.args.start) <= quantum

\* C7 witness: a sweep built without skip_first whose resolved start is not the
\* requested start (quantization moved it)
C7_Witness ==
    /\ hsweep.pc = "done"
    /\ ~hsweep.args.skip_first
    /\ hsweep.self.num >= 2
    /\ hsweep.self.start # hsweep.args.start

\* the units of the sweep's parameters
SweepUnits ==
    { ssweep.args.parameters.units[i] : i \in 1..Len(ssweep.args.parameters.units) }

\* C5: constructing a SoftwareSweep over parameters whose units are not all
\* identical ends in an error, and no value list has been computed or trimmed
\* by then (no linspace, no skip_first/skip_last slice, no values attribute);
\* with a single shared unit the construction does not fail and goes on to
\* set the value list.
C5_UnitCheckFirst ==
    ssweep.pc # "idle" =>
        /\ Cardinality(SweepUnits) > 1 =>
             /\ ssweep.calls = <<>>
             /\ "values" \notin DOMAIN ssweep.self
             /\ ssweep.pc \in {"parameters", "units", "error"}
             /\ (ssweep.pc = "error" \/ ENABLED NextSW)
        /\ ssweep.pc = "error" =>
             /\ ssweep.error = "AssertionError"
             /\ ssweep.calls = <<>>
             /\ "values" \notin DOMAIN ssweep.self
        /\ Cardinality(SweepUnits) = 1 =>
             /\ ssweep.pc # "error"
             /\ (ssweep.pc = "done" \/ ENABLED NextSW)
             /\ ssweep.pc = "done" => "values" \in DOMAIN ssweep.self

\* C5 witness: a sweep over two parameters with different units, asked to use
\* linspace and to skip the first value, has failed without a values attribute
C5_Witness ==
    /\ ssweep.pc = "error"
    /\ ssweep.args.parameters.units = <<"Hz", "sec">>
    /\ ~ssweep.args.values.explicit
    /\ ssweep.args.skip_first
    /\ ssweep.calls = <<>>
    /\ "values" \notin DOMAIN ssweep.self

\* the data columns that got a sample block in a result block
IqColumns(block) ==
    LET iqs == SelectSeq(block, LAMBDA e : e.kind = "iq")
    IN  [c \in 1..Len(iqs) |-> iqs[c].column]

\* C11: a run of SweepProtocol.run completes only if the number of readout
\* channels equals the number of per-channel readout counts and every
\* acquisition returned exactly one sample block per registered data column:
\* every result block holds one block for each data column (no column is left
\* without data) and no returned block was left out.
C11_MismatchAborts ==
    (protocol = "SweepProtocol" /\ pc = "done") =>
        /\ Len(ro_chs) = Len(reads_per_shot)
        /\ iq.rows = Len(iq_parameters)
        /\ \A b \in 1..Len(results) : IqColumns(results[b]) = iq_parameters

\* C11, the part the code enforces: a run that gets past the discovery build
\* has as many readout channels as per-channel readout counts, and some readout.
C11_ChannelCountChecked ==
    (protocol = "SweepProtocol" /\ pc \notin {"start", "discover", "error"}) =>
        /\ Len(ro_chs) = Len(reads_per_shot)
        /\ SeqSum(reads_per_shot) > 0

\* C11 divergence: a run completes although the program built with the sweeps
\* reads one channel less than the discovery program: column iq_ch1 is
\* registered and never gets data.
C11_Witness ==
    /\ protocol = "SweepProtocol"
    /\ pc = "done"
    /\ reads_per_shot = <<1, 1>>
    /\ run_reads = <<1>>
    /\ iq_parameters = <<"iq_ch0", "iq_ch1">>
    /\ Len(results) = 1
    /\ IqColumns(results[1]) = <<"iq_ch0">>

\* the entries of a result block that carry software sweep values
SoftwareEntries(block) == SelectSeq(block, LAMBDA e : e.kind = "value")

\* C12: an exception ends SweepProtocol.run at once: nothing runs after it.
\* When build or acquire raised inside the software sweep loop at combination
\* k, the failed call is the last call made, there have been k builds in the
\* loop and k acquires (k - 1 if the build raised), the measurement session
\* holds exactly the blocks of combinations 1..k-1, and every software-swept
\* parameter holds its value of combination k.
C12_FailureStops ==
    protocol = "SweepProtocol" =>
        /\ error # "" => pc = "error"
        /\ pc = "error" => ~ENABLED NextRun
        /\ (pc = "error" /\ current_values # <<>>) =>
              LET lens == Lens(software_sweeps)
                  k    == Len(results) + 1
                  last == log[Len(log)]
              IN  /\ current_values = Unrank(k - 1, lens)
                  /\ last.op \in {"build", "acquire"}
                  /\ last.at = current_values
                  /\ n_build = k + 1
                  /\ n_acquire = IF last.op = "acquire" THEN k ELSE k - 1
                  /\ \A j \in 1..(k - 1) :
                        SoftwareEntries(results[j])
                          = software_result(software_sweeps, Unrank(j - 1, lens))
                  /\ \A p \in DOMAIN param_value :
                        p[1] = "soft" =>
                          param_value[p]
                            = software_sweeps[p[2]].values[current_values[p[2]]]

\* C12 witness: sweeps A and B of two values each, the acquire of the third
\* combination (A1, B0) raises: two blocks are in the session, A holds its
\* second value and B its first.
C12_Witness ==
    /\ protocol = "SweepProtocol"
    /\ pc = "error"
    /\ error = "RuntimeError"
    /\ fail = [op |-> "acquire", at |-> 3]
    /\ current_values = <<2, 1>>
    /\ Len(results) = 2
    /\ n_acquire = 3
    /\ param_value[<<"soft", 1, 1>>] = 12
    /\ param_value[<<"soft", 2, 1>>] = 21

\* C15: in SweepProtocol.run, when the discovery build is about to happen every
\* parameter of every software sweep holds the first value of its sweep and
\* all sweep parameters are registered; when the measurement session is about
\* to be opened exactly one build and no acquire has happened and the
\* parameters still hold the first values; whenever an acquire has happened
\* every data column has been registered.
C15_SetupOrder ==
    protocol = "SweepProtocol" =>
        /\ pc = "start" => (n_build = 0 /\ n_acquire = 0)
        /\ pc \in {"discover", "register_iq", "open"} =>
              /\ n_build = (IF pc = "discover" THEN 0 ELSE 1)
              /\ n_acquire = 0
              /\ setpoints = SoftSetpoints(software_sweeps, Len(software_sweeps))
                               \o HardSetpoints(hardware_sweeps)
              /\ \A p \in DOMAIN param_value :
                    p[1] = "soft" =>
                      param_value[p] = software_sweeps[p[2]].values[1]
        /\ pc = "open" => Len(iq_parameters) = SeqSum(reads_per_shot)
        /\ n_acquire > 0 =>
              /\ n_build >= 2
              /\ Len(iq_parameters) = SeqSum(reads_per_shot)
              /\ log[1] = [op |-> "build", at |-> <<>>]

\* C15 witness: sweep A over two parameters and sweep B over one, the session
\* is about to be opened after one build and no acquire.
C15_Witness ==
    /\ protocol = "SweepProtocol"
    /\ pc = "open"
    /\ software_sweeps = <<SoftwareSweepAt(1, 2, 2), SoftwareSweepAt(2, 1, 2)>>
    /\ param_value[<<"soft", 1, 1>>] = 11
    /\ param_value[<<"soft", 1, 2>>] = 11
    /\ param_value[<<"soft", 2, 1>>] = 21
    /\ n_build = 1
    /\ n_acquire = 0
    /\ log = <<[op |-> "build", at |-> <<>>]>>
    /\ iq_parameters # <<>>

\* the codes a register of the device holds (two's complement, RegisterBits wide)
Representable(code) ==
    -(2 ^ (RegisterBits - 1)) <= code /\ code <= 2 ^ (RegisterBits - 1) - 1

\* C13: HardwareSweep.__init__ returns a sweep object only if count >= 2 and
\* step_int and every resolved code fit the register's integer width.
C13_InvalidSweepFails ==
    hsweep.pc = "done" =>
        /\ hsweep.args.num >= 2
        /\ Representable(hsweep.self.step_int)
        /\ \A k \in 1..Len(hsweep.self.values_int) :
              Representable(hsweep.self.values_int[k])

\* C13, the part the code enforces: no sweep object is built with count < 2
\* (count = 1 divides by zero, count <= 0 indexes an empty array).
C13_CountBelowTwoFails ==
    /\ hsweep.pc = "done" => hsweep.args.num >= 2
    /\ (hsweep.pc = "error" /\ hsweep.args.num = 1) => hsweep.error = "ZeroDivisionError"
    /\ (hsweep.pc = "error" /\ hsweep.args.num = 0) => hsweep.error = "IndexError"

\* C13 divergence: a sweep object exists whose step_int and stop_int (10) need
\* more bits than the register has.
C13_Witness ==
    /\ hsweep.pc = "done"
    /\ hsweep.parameter = [scale |-> 1, offset |-> 0, rounding |-> "nearest"]
    /\ hsweep.args = [start |-> 0, stop |-> 10, num |-> 2,
                      skip_first |-> FALSE, skip_last |-> FALSE]
    /\ hsweep.self.step_int = 10
    /\ hsweep.self.stop_int = 10
    /\ ~Representable(hsweep.self.step_int)

\* the instructions configured so far, in the order of their directives
ConfigIds ==
    LET cs == SelectSeq(built.emitted, LAMBDA d : d.kind = "configure")
    IN  [c \in 1..Len(cs) |-> cs[c].id]

\* the protocol's instruction sequence, as declared
DeclaredIds == [i \in 1..Len(built.instructions) |-> built.instructions[i].id]

\* initialize() is past its loop over the instructions
InstructionsConfigured ==
    /\ built.builder = "SweepProgram"
    /\ built.instructions # <<>>
    /\ built.pc \in {"initialize", "done", "compiled", "error"}

\* the stage of initialize() a directive belongs to
Stage(kind) ==
    IF kind = "declare_gen" THEN 1
    ELSE IF kind \in {"declare_readout", "add_readoutconfig", "send_readoutconfig"}
    THEN 2
    ELSE IF kind = "configure" THEN 3
    ELSE 4

\* the channels a kind of directive was emitted for, one entry per directive
Declared(kind) ==
    LET ds == SelectSeq(built.emitted, LAMBDA d : d.kind = kind)
    IN  [c \in 1..Len(ds) |-> ds[c].id]

OnceEach(seq, set) ==
    /\ Len(seq) = Cardinality(set)
    /\ { seq[c] : c \in 1..Len(seq) } = set

\* C14 as stated: a protocol whose instruction sequence lists n entries yields
\* n configuration directives, in the declared order.
C14_OnePerEntryInOrder ==
    InstructionsConfigured => ConfigIds = DeclaredIds

\* C14 amended: building a SweepProgram emits exactly one configuration
\* directive per distinct instruction of the protocol (an instruction listed
\* twice is configured once), after one declaration of every generator and
\* every readout the instructions use and before any hardware-sweep
\* directive; the body then plays the n entries in the declared order.
C14_OnePerDistinctInstruction ==
    /\ built.pc # "idle" =>
          \A a, b \in 1..Len(built.emitted) :
             a < b => Stage(built.emitted[a].kind) <= Stage(built.emitted[b].kind)
    /\ InstructionsConfigured =>
          /\ OnceEach(ConfigIds, { DeclaredIds[i] : i \in 1..Len(DeclaredIds) })
          /\ OnceEach(Declared("declare_gen"),
                      UNION { built.instructions[i].dacs :
                                i \in 1..Len(built.instructions) })
          /\ OnceEach(Declared("declare_readout"),
                      UNION { built.instructions[i].adcs :
                                i \in 1..Len(built.instructions) })
    /\ built.pc = "compiled" => built.played = DeclaredIds

\* C14 witness: instructions [2, 1, 2] are configured as 1, 2 (once each, not
\* in the declared order), before the sweep, and played as 2, 1, 2.
C14_Witness ==
    /\ built.pc = "compiled"
    /\ DeclaredIds = <<2, 1, 2>>
    /\ ConfigIds = <<1, 2>>
    /\ built.played = <<2, 1, 2>>
    /\ built.directives = <<1>>
    /\ built.emitted[Len(built.emitted)].kind = "sweep"

\* C16: no step of building a program (SweepProgram.__init__, the channels'
\* initialize, the instructions' initialize, the sweep loop, whether it ends
\* normally or raises) changes a channel attribute, a protocol parameter, the
\* protocol's instructions or a sweep descriptor.
C16_BuildLeavesStateUnchanged ==
    [][built.pc # "idle" =>
          /\ device' = device
          /\ built'.sweeps = built.sweeps
          /\ built'.instructions = built.instructions]_vars

\* C16 witness: a build that raised at the hardware sweep after declaring
\* generator 0 in Nyquist zone 2, which is still the channel's zone.
C16_Witness ==
    /\ built.pc = "error"
    /\ built.builder = "SweepProgram"
    /\ device.dacs[0].nqz = 2
    /\ \E a \in 1..Len(built.emitted) :
          built.emitted[a] = Directive("declare_gen", 0, [nqz |-> 2])
    /\ Len(built.sweeps) = 1
    /\ built.sweeps[1].owner = "QickProtocol"

\* C18: at every moment a parameter is in the instrument's swept_params if and
\* only if the value assigned to it most recently is a QickParam, and an
\* assignment to one parameter changes the membership of no other parameter.
C18_SweptParamsTracksAssignments ==
    /\ [](instrument.pc = "ready" =>
            \A q \in SweepableParams :
               q \in instrument.swept_params <=> instrument.value[q] = "QickParam")
    /\ [][instrument.pc = "ready" =>
            \A q \in SweepableParams :
               q # instrument'.last[1] =>
                  (q \in instrument'.swept_params <=> q \in instrument.swept_params)]_vars

\* C18 witness: two parameters are swept, then 'auto' is assigned to one of
\* them: it has left swept_params and the other one is still in it.
C18_Witness ==
    /\ instrument.pc = "ready"
    /\ instrument.last = <<<<"SweepableOrAutoParameter", 1>>, "auto", "">>
    /\ instrument.value[<<"SweepableParameter", 1>>] = "QickParam"
    /\ instrument.swept_params = {<<"SweepableParameter", 1>>}

\* C17: once SweepProtocol.run has registered the data columns there is exactly
\* one per (readout channel, shot index) pair, each named by IqName of its
\* pair, and the names are pairwise distinct.
C17_DistinctColumns ==
    (protocol = "SweepProtocol"
       /\ pc \in {"open", "next", "set", "build", "acquire", "add", "done"}) =>
        LET pairs == { <<i, r>> \in (1..Len(ro_chs)) \X (0..MaxReads) :
                         r < reads_per_shot[i] }
        IN  /\ Len(iq_parameters) = Cardinality(pairs)
            /\ \A a, b \in 1..Len(iq_parameters) :
                  a # b => iq_parameters[a] # iq_parameters[b]
            /\ \A pr \in pairs : \E c \in 1..Len(iq_parameters) :
                  iq_parameters[c] = IqName(reads_per_shot, ro_chs, pr[1], pr[2])

\* C17 witness: channel 1 with two readouts per shot and channel 10 with one.
C17_Witness ==
    /\ protocol = "SweepProtocol"
    /\ pc = "open"
    /\ ro_chs = <<1, 10>>
    /\ reads_per_shot = <<2, 1>>
    /\ iq_parameters = <<"iq0_ch1", "iq1_ch1", "iq_ch10">>

====
